---------------------------- MODULE Spec2Model ----------------------------
(***************************************************************************)
(* Model of zenodo-rdm's GitHub release metadata adapter                   *)
(* (site/zenodo_rdm/github/release.py) and of the legacy serializer        *)
(* schemas (site/zenodo_rdm/legacy/serializers/schemas.py).                *)
(*                                                                         *)
(* Every operation of the two files is a call on an input object: `op`     *)
(* names the operation, `obj` is its input, `pc` its position, `locals`    *)
(* the local variables a multi-step operation keeps between its external   *)
(* calls, `calls` the external services it has called so far, and          *)
(* `result` / `raised` what it returned or raised.                         *)
(*                                                                         *)
(* Python dicts are functions from key strings to values; a key that is    *)
(* absent is not in the DOMAIN.  Python strings that the code splits are   *)
(* sequences of one-character strings.                                     *)
(***************************************************************************)
EXTENDS Integers, Sequences, FiniteSets, TLC

VARIABLES op, obj, pc, locals, calls, result, raised

vars == <<op, obj, pc, locals, calls, result, raised>>

(***************************************************************************)
(* Python values shared by all operations                                  *)
(***************************************************************************)

\* The empty dict {}.
EmptyDict == [k \in {} |-> "x"]

\* dict.update(other): other's keys win, the rest is kept.
Update(d, e) ==
    [k \in (DOMAIN d) \cup (DOMAIN e) |-> IF k \in DOMAIN e THEN e[k] ELSE d[k]]

\* "No exception is propagating".
NoError == "none"

\* The value of `locals` / `result` where the operation has none (yet).
Nothing == [nothing |-> TRUE]

(***************************************************************************)
(* github/release.py                                                       *)
(***************************************************************************)

\* The default metadata RDMReleaseMetadata builds from the release itself.
DefaultMetadatas ==
    { [title |-> "repo: v1", version |-> "v1"],
      [title |-> "repo: v1", version |-> "v1", description |-> "notes"] }

\* Legacy (flat) metadata dicts, as found in .zenodo.json or produced from CITATION.cff.
LegacyTitles == {"T1", "T2"}
LegacyUploadTypes == {"software", "bogus"}
LegacyDescriptions == {"D1"}

LegacyDicts ==
    { Update(Update(t, u), d) :
        t \in {EmptyDict} \cup { [title |-> x] : x \in LegacyTitles },
        u \in {EmptyDict} \cup { [upload_type |-> x] : x \in LegacyUploadTypes },
        d \in {EmptyDict} \cup { [description |-> x] : x \in LegacyDescriptions } }

\* What retrieve_remote_file(".zenodo.json") finds in the release's tree:
\* no file, or a file whose bytes are not UTF-8, not JSON, or a JSON object.
ZenodoJsonFiles ==
    { [exists |-> FALSE, bytes |-> "none", doc |-> EmptyDict],
      [exists |-> TRUE, bytes |-> "not_utf8", doc |-> EmptyDict],
      [exists |-> TRUE, bytes |-> "not_json", doc |-> EmptyDict] }
    \cup { [exists |-> TRUE, bytes |-> "json", doc |-> d] : d \in LegacyDicts }

\* The `data` handed to load_citation_metadata: the parsed CITATION.cff, None when
\* there is no such file, {} for an empty one.  "title" and "abstract" are CFF keys;
\* "cff_version" = "bad" stands for a document the CFF schema rejects.
CitationDatas ==
    { [present |-> FALSE, cff |-> EmptyDict] }
    \cup { [present |-> TRUE, cff |-> Update(Update(t, a), v)] :
             t \in {EmptyDict} \cup { [title |-> x] : x \in LegacyTitles },
             a \in {EmptyDict} \cup { [abstract |-> x] : x \in LegacyDescriptions },
             v \in {EmptyDict, [cff_version |-> "bad"]} }

\* json.loads(content.decoded.decode("utf-8")): the exception it raises, if any.
JsonLoadsError(file) ==
    CASE file.bytes = "not_utf8" -> "UnicodeDecodeError"
      [] file.bytes = "not_json" -> "JSONDecodeError"
      [] OTHER -> NoError

\* CitationMetadataSchema().load(data): CFF keys renamed to the legacy ones.
CitationSchemaError(cff) ==
    IF "cff_version" \in DOMAIN cff THEN "ValidationError" ELSE NoError

CitationSchemaLoad(cff) ==
    Update(IF "title" \in DOMAIN cff THEN [title |-> cff.title] ELSE EmptyDict,
           IF "abstract" \in DOMAIN cff THEN [description |-> cff.abstract] ELSE EmptyDict)

\* LegacySchema().load({"metadata": legacy})["metadata"]: the legacy upload_type
\* becomes the RDM resource_type; an unknown upload type is a validation error.
LegacySchemaError(legacy) ==
    IF "upload_type" \in DOMAIN legacy /\ legacy.upload_type = "bogus"
    THEN "ValidationError" ELSE NoError

LegacySchemaLoad(legacy) ==
    Update([k \in (DOMAIN legacy) \ {"upload_type"} |-> legacy[k]],
           IF "upload_type" \in DOMAIN legacy
           THEN [resource_type |-> legacy.upload_type] ELSE EmptyDict)

\* ExceptClause with a fault seeded: only validation errors are wrapped.
ExceptClauseValidationOnly(exc) ==
    IF exc = "ValidationError" THEN "CustomGitHubMetadataError" ELSE exc

\* `except Exception as exc: ... raise CustomGitHubMetadataError(...)`.
ExceptClause(exc) ==
    IF exc = NoError THEN NoError ELSE "CustomGitHubMetadataError"

\* What a loader call comes to: the value returned, the exception that escapes,
\* and whether LegacySchema().load was invoked.
Outcome(ret, exc, schema) == [ret |-> ret, raised |-> exc, schema |-> schema]

\* ZenodoReleaseMetadata.load_extra_metadata; `net` is the exception, if any, that
\* retrieve_remote_file raises on this call.
load_extra_metadata(file, net) ==
    IF net # NoError THEN Outcome(EmptyDict, ExceptClause(net), FALSE)
    ELSE IF ~file.exists THEN Outcome(EmptyDict, NoError, FALSE)
    ELSE IF JsonLoadsError(file) # NoError
    THEN Outcome(EmptyDict, ExceptClause(JsonLoadsError(file)), FALSE)
    ELSE IF LegacySchemaError(file.doc) # NoError
    THEN Outcome(EmptyDict, ExceptClause(LegacySchemaError(file.doc)), TRUE)
    ELSE Outcome(LegacySchemaLoad(file.doc), NoError, TRUE)

\* `not data` for the parsed citation file: None and {} are both falsy.
CitationDataFalsy(data) == ~data.present \/ data.cff = EmptyDict

\* ZenodoReleaseMetadata.load_citation_metadata.
load_citation_metadata(data) ==
    IF CitationDataFalsy(data) THEN Outcome(EmptyDict, NoError, FALSE)
    ELSE IF CitationSchemaError(data.cff) # NoError
    THEN Outcome(EmptyDict, ExceptClause(CitationSchemaError(data.cff)), FALSE)
    ELSE IF LegacySchemaError(CitationSchemaLoad(data.cff)) # NoError
    THEN Outcome(EmptyDict,
                 ExceptClause(LegacySchemaError(CitationSchemaLoad(data.cff))), TRUE)
    ELSE Outcome(LegacySchemaLoad(CitationSchemaLoad(data.cff)), NoError, TRUE)

\* The exceptions retrieve_remote_file may raise on a call (a transient failure of
\* the hosting API), or none.
RetrieveErrors == {NoError, "ConnectionError"}

\* One release: its default metadata, its .zenodo.json and its CITATION.cff.
Releases ==
    [default_metadata : DefaultMetadatas,
     zenodo_json : ZenodoJsonFiles,
     citation : CitationDatas]

\* The locals of ZenodoGithubRelease.metadata, with the outcome of the last loader call.
MetadataLocals(output, extra, citation, last) ==
    [output |-> output, extra_metadata |-> extra,
     citation_metadata |-> citation, last |-> last]

\* A loader call, with the exception retrieve_remote_file raised in it, if any.
LoaderCall(fn, net) == [fn |-> fn, net |-> net]

InitRelease ==
    /\ op = "metadata"
    /\ obj \in Releases
    /\ pc = "call"
    /\ locals = Nothing
    /\ calls = <<>>
    /\ result = Nothing
    /\ raised = NoError

\* Lines 69-71: output = metadata.default_metadata; extra_metadata = metadata.extra_metadata.
MetadataLoadExtra ==
    /\ op = "metadata" /\ pc = "call"
    /\ \E net \in RetrieveErrors :
         LET out == load_extra_metadata(obj.zenodo_json, net) IN
           /\ calls' = Append(calls, LoaderCall("load_extra_metadata", net))
           /\ locals' = MetadataLocals(obj.default_metadata, out.ret, EmptyDict, out)
           /\ raised' = out.raised
           /\ pc' = IF out.raised = NoError THEN "branch" ELSE "done"
    /\ UNCHANGED <<op, obj, result>>

\* ExtraBranch with a fault seeded: the test is inverted.
ExtraBranchInverted(extra_metadata) == extra_metadata = EmptyDict

\* Line 74: `if extra_metadata:`.
ExtraBranch(extra_metadata) == extra_metadata # EmptyDict

\* Line 75: output.update(metadata.extra_metadata), the property evaluated again,
\* then line 82.
MetadataUpdateExtra ==
    /\ op = "metadata" /\ pc = "branch"
    /\ ExtraBranch(locals.extra_metadata)
    /\ \E net \in RetrieveErrors :
         LET out == load_extra_metadata(obj.zenodo_json, net) IN
           /\ calls' = Append(calls, LoaderCall("load_extra_metadata", net))
           /\ raised' = out.raised
           /\ locals' = [locals EXCEPT !.last = out,
                           !.output = IF out.raised = NoError
                                      THEN Update(locals.output, out.ret)
                                      ELSE locals.output]
           /\ result' = IF out.raised = NoError
                        THEN Update(locals.output, out.ret) ELSE Nothing
    /\ pc' = "done"
    /\ UNCHANGED <<op, obj>>

\* Line 78: citation_metadata = metadata.citation_metadata.
MetadataLoadCitation ==
    /\ op = "metadata" /\ pc = "branch"
    /\ ~ExtraBranch(locals.extra_metadata)
    /\ LET out == load_citation_metadata(obj.citation) IN
         /\ calls' = Append(calls, LoaderCall("load_citation_metadata", NoError))
         /\ locals' = [locals EXCEPT !.citation_metadata = out.ret, !.last = out]
         /\ raised' = out.raised
         /\ pc' = IF out.raised = NoError THEN "citation" ELSE "done"
    /\ UNCHANGED <<op, obj, result>>

\* Lines 79-82: `if citation_metadata: output.update(citation_metadata)`; return output.
MetadataUpdateCitation ==
    /\ op = "metadata" /\ pc = "citation"
    /\ LET output == IF locals.citation_metadata # EmptyDict
                     THEN Update(locals.output, locals.citation_metadata)
                     ELSE locals.output IN
         /\ locals' = [locals EXCEPT !.output = output]
         /\ result' = output
    /\ pc' = "done"
    /\ UNCHANGED <<op, obj, calls, raised>>

NextRelease ==
    \/ MetadataLoadExtra
    \/ MetadataUpdateExtra
    \/ MetadataLoadCitation
    \/ MetadataUpdateCitation

(***************************************************************************)
(* legacy/serializers/schemas.py: values                                   *)
(***************************************************************************)

\* marshmallow's `missing`: the field is left out of the output.
Missing == [missing |-> TRUE]

\* A value returned by a field method.
Returned(v) == [ret |-> v]

\* Python's None where a string is expected.
PyNone == "None"

\* The None a method returns by running off its end.
NoneReturned == [none |-> TRUE]

\* The state in which a single-step operation is about to run on its input.
Ready(name, inputs) ==
    /\ op = name
    /\ obj \in inputs
    /\ pc = "call"
    /\ locals = Nothing
    /\ calls = <<>>
    /\ result = Nothing
    /\ raised = NoError

\* A single-step operation returns `value` or raises `exc`.
Finish(name, value, exc) ==
    /\ op = name /\ pc = "call"
    /\ pc' = "done"
    /\ result' = IF exc = NoError THEN value ELSE Nothing
    /\ raised' = exc
    /\ UNCHANGED <<op, obj, locals, calls>>

\* The longest string an input holds, and the longest list.
MaxStrLen == 4
MaxListLen == 2

\* All strings over `chars` of at most n characters.
Strings(chars, n) == UNION { [1..k -> chars] : k \in 0..n }

\* All lists over `items` of at most n elements.
Lists(items, n) == UNION { [1..k -> items] : k \in 0..n }

\* The index of the first / last `c` in s, 0 when there is none.
RECURSIVE Find(_, _, _)
Find(s, c, i) ==
    IF i > Len(s) THEN 0 ELSE IF s[i] = c THEN i ELSE Find(s, c, i + 1)

\* str.split(c): the parts of s between occurrences of c, at least one part.
RECURSIVE Split(_, _)
Split(s, c) ==
    LET i == Find(s, c, 1) IN
      IF i = 0 THEN <<s>>
      ELSE <<SubSeq(s, 1, i - 1)>> \o Split(SubSeq(s, i + 1, Len(s)), c)

(***************************************************************************)
(* LegacySchema.dump_state, LegacySchema.dump_prereserve_doi               *)
(***************************************************************************)

RecordIds == {"1", "22"}
DoiProviders == {"external", "datacite"}
DoiIdentifiers == {"10.5281/zenodo.1", "10.5281/zenodo.22", "10.1234/foo.1"}

\* pids.doi: the provider and the identifier, either of which a draft may lack.
DoiPids ==
    { Update(p, i) :
        p \in {EmptyDict} \cup { [provider |-> x] : x \in DoiProviders },
        i \in {EmptyDict} \cup { [identifier |-> x] : x \in DoiIdentifiers } }

\* The records LegacySchema's post_dump hooks see (the fields they read).
LegacyRecords ==
    [id : RecordIds, is_published : BOOLEAN, is_draft : BOOLEAN,
     pids : {EmptyDict} \cup { [doi |-> d] : d \in DoiPids }]

\* dump_state with a fault seeded: the draft test comes first.
dump_state_draft_first(original) ==
    [state |-> IF original.is_draft THEN "inprogress"
               ELSE IF original.is_published THEN "done" ELSE "unsubmitted",
     submitted |-> original.is_published]

\* LegacySchema.dump_state: the keys it sets in the result.
dump_state(original) ==
    [state |-> IF original.is_published
               THEN (IF original.is_draft THEN "inprogress" ELSE "done")
               ELSE "unsubmitted",
     submitted |-> original.is_published]

DumpState == Finish("dump_state", dump_state(obj), NoError)

\* The exception the subscripts of dump_prereserve_doi raise, if any.
PrereserveDoiError(original) ==
    IF "doi" \notin DOMAIN original.pids THEN "KeyError"
    ELSE IF "provider" \notin DOMAIN original.pids.doi THEN "KeyError"
    ELSE IF original.pids.doi.provider # "external"
            /\ "identifier" \notin DOMAIN original.pids.doi THEN "KeyError"
    ELSE NoError

\* f"10.5281/zenodo.{recid}"
ZenodoDoi(recid) == "10.5281/zenodo." \o recid

\* dump_prereserve_doi with a fault seeded: the provider test is inverted.
dump_prereserve_doi_inverted(original) ==
    [doi |-> IF original.pids.doi.provider = "external"
                /\ "identifier" \in DOMAIN original.pids.doi
             THEN original.pids.doi.identifier
             ELSE ZenodoDoi(original.id),
     recid |-> original.id]

\* LegacySchema.dump_prereserve_doi: the value of result["metadata"]["prereserve_doi"].
dump_prereserve_doi(original) ==
    [doi |-> IF original.pids.doi.provider = "external"
             THEN ZenodoDoi(original.id)
             ELSE original.pids.doi.identifier,
     recid |-> original.id]

DumpPrereserveDoi ==
    Finish("dump_prereserve_doi",
           IF PrereserveDoiError(obj) = NoError
           THEN [metadata |-> [prereserve_doi |-> dump_prereserve_doi(obj)]]
           ELSE Nothing,
           PrereserveDoiError(obj))

InitLegacySchema ==
    \/ Ready("dump_state", LegacyRecords)
    \/ Ready("dump_prereserve_doi", LegacyRecords)

NextLegacySchema ==
    \/ DumpState
    \/ DumpPrereserveDoi

(***************************************************************************)
(* DateSchema.dump_date                                                    *)
(***************************************************************************)

DateChars == {"1", "9", "/"}

\* The date entries DateSchema dumps: `date` absent, or an EDTF string.
DateEntries ==
    {EmptyDict} \cup { [date |-> d] : d \in Strings(DateChars, MaxStrLen) }

\* IsInterval with a fault seeded: any string with a "/" is an interval.
IsIntervalAtLeastTwo(interval) == Len(interval) >= 2

\* Line 125: is_interval = len(interval) == 2.
IsInterval(interval) == Len(interval) = 2

\* DateSchema.dump_date: the result with the keys the hook adds.
dump_date(res, original) ==
    IF "date" \in DOMAIN original /\ original.date # <<>>
    THEN LET interval == Split(original.date, "/") IN
           IF IsInterval(interval)
           THEN Update(res, [start |-> interval[1], end |-> interval[2]])
           ELSE res
    ELSE res

DumpDate == Finish("dump_date", dump_date(EmptyDict, obj), NoError)

InitDateSchema == Ready("dump_date", DateEntries)

NextDateSchema == DumpDate

(***************************************************************************)
(* MetadataSchema.dump_resource_type                                       *)
(***************************************************************************)

TypeChars == {"a", "b", "-"}

\* The originals dump_resource_type sees: no resource_type, a resource_type
\* without id, or one whose id is a string.
ResourceTypeOriginals ==
    {EmptyDict, [resource_type |-> EmptyDict]}
    \cup { [resource_type |-> [id |-> t]] : t \in Strings(TypeChars, MaxStrLen) }

\* The result keys, as strings: "upload_type" and the suffix "_type".
UploadTypeKey == <<"u", "p", "l", "o", "a", "d", "_", "t", "y", "p", "e">>
TypeSuffix == <<"_", "t", "y", "p", "e">>

\* SubType with a fault seeded: the part after the first "-".
SubTypeSecond(parts) == parts[2]

\* Line 235: resource_type_id.split("-")[-1].
SubType(parts) == parts[Len(parts)]

\* MetadataSchema.dump_resource_type: the result with the keys the hook adds.
dump_resource_type(res, original) ==
    IF /\ "resource_type" \in DOMAIN original
       /\ "id" \in DOMAIN original.resource_type
       /\ original.resource_type.id # <<>>
    THEN LET resource_type_id == original.resource_type.id
             parts == Split(resource_type_id, "-")
             upload_type == parts[1]
             res1 == Update(res, [k \in {UploadTypeKey} |-> upload_type]) IN
           IF Find(resource_type_id, "-", 1) # 0
           THEN Update(res1, [k \in {upload_type \o TypeSuffix} |-> SubType(parts)])
           ELSE res1
    ELSE res

DumpResourceType ==
    Finish("dump_resource_type", dump_resource_type(EmptyDict, obj), NoError)

(***************************************************************************)
(* MetadataSchema.dump_access_right                                        *)
(***************************************************************************)

\* access.files; "other" stands for any value that is neither of the two RDM ones.
FilesAccess == {"public", "restricted", "other"}

\* access.embargo: absent, or a dict with or without `active`.
Embargoes == {EmptyDict} \cup { [active |-> x] : x \in BOOLEAN }

AccessObjs ==
    { [access |-> Update([files |-> f], e)] :
        f \in FilesAccess,
        e \in {EmptyDict} \cup { [embargo |-> x] : x \in Embargoes } }

\* Line 277: access.get("embargo", {}).get("active"), None being falsy.
IsEmbargoed(access) ==
    /\ "embargo" \in DOMAIN access
    /\ "active" \in DOMAIN access.embargo
    /\ access.embargo.active

\* dump_access_right with a fault seeded: the embargo is tested before the files.
dump_access_right_embargo_first(o) ==
    LET access == o.access
        is_open == access.files = "public"
        is_embargoed == IsEmbargoed(access)
        is_restricted == ~is_embargoed /\ access.files = "restricted" IN
      IF is_embargoed THEN "embargoed"
      ELSE IF is_open THEN "open"
      ELSE IF is_restricted THEN "restricted"
      ELSE PyNone

\* MetadataSchema.dump_access_right.
dump_access_right(o) ==
    LET access == o.access
        is_open == access.files = "public"
        is_embargoed == IsEmbargoed(access)
        is_restricted == ~is_embargoed /\ access.files = "restricted" IN
      IF is_open THEN "open"
      ELSE IF is_restricted THEN "restricted"
      ELSE IF is_embargoed THEN "embargoed"
      ELSE PyNone

DumpAccessRight ==
    Finish("dump_access_right", Returned(dump_access_right(obj)), NoError)

(***************************************************************************)
(* MetadataSchema.dump_license, MetadataSchema.dump_languages              *)
(***************************************************************************)

\* A right is a vocabulary license (it has an id) or a custom one (a title only).
Rights == { [id |-> "cc0-1.0"], [id |-> "mit"], [title |-> "Custom"] }
Languages == { [id |-> "eng"], [id |-> "fra"] }

\* The metadata dump_license and dump_languages see.
LicenseObjs ==
    {EmptyDict} \cup { [rights |-> r] : r \in Lists(Rights, MaxListLen) }
LanguageObjs ==
    {EmptyDict} \cup { [languages |-> l] : l \in Lists(Languages, MaxListLen) }

\* zenodo_rdm.legacy.vocabularies.licenses.rdm_to_legacy: the legacy id of an RDM
\* license id, the id itself where the two vocabularies agree.
rdm_to_legacy(id) == IF id = "cc0-1.0" THEN "cc-zero" ELSE id

\* FirstOf with a fault seeded: the last element.
LastOf(list) == list[Len(list)]

\* Lines 386 and 453: license[0], languages[0].
FirstOf(list) == list[1]

\* The exception dump_license raises, if any: a right without "id".
DumpLicenseError(data) ==
    IF /\ "rights" \in DOMAIN data /\ data.rights # <<>>
       /\ "id" \notin DOMAIN FirstOf(data.rights)
    THEN "KeyError" ELSE NoError

\* MetadataSchema.dump_license.
dump_license(data) ==
    IF "rights" \notin DOMAIN data \/ data.rights = <<>> THEN Missing
    ELSE Returned([id |-> rdm_to_legacy(FirstOf(data.rights).id)])

\* MetadataSchema.dump_languages.
dump_languages(o) ==
    IF "languages" \notin DOMAIN o \/ o.languages = <<>> THEN Missing
    ELSE Returned(FirstOf(o.languages).id)

DumpLicense ==
    Finish("dump_license",
           IF DumpLicenseError(obj) = NoError THEN dump_license(obj) ELSE Nothing,
           DumpLicenseError(obj))

DumpLanguages == Finish("dump_languages", dump_languages(obj), NoError)

InitMetadataSchema ==
    \/ Ready("dump_resource_type", ResourceTypeOriginals)
    \/ Ready("dump_access_right", AccessObjs)
    \/ Ready("dump_license", LicenseObjs)
    \/ Ready("dump_languages", LanguageObjs)

NextMetadataSchema ==
    \/ DumpResourceType
    \/ DumpAccessRight
    \/ DumpLicense
    \/ DumpLanguages

(***************************************************************************)
(* MetadataSchema.dump_grants, _award, _funder                             *)
(***************************************************************************)

\* The awards vocabulary behind current_service_registry.get("awards"): what
\* read(...).to_dict() returns for each id it resolves.
AwardsVocabulary ==
    [aw1 |-> [id |-> "aw1", number |-> "101", title |-> [en |-> "Grant one"],
              acronym |-> "G1", funder |-> [id |-> "ror1"],
              identifiers |-> <<[scheme |-> "url", identifier |-> "https://g/1"]>>],
     aw2 |-> [id |-> "aw2", number |-> "202", title |-> [fr |-> "Subvention"],
              funder |-> [id |-> "ror2"], identifiers |-> <<>>],
     aw3 |-> [id |-> "aw3", number |-> "303", title |-> EmptyDict,
              funder |-> [id |-> "ror1"],
              identifiers |-> <<[scheme |-> "doi", identifier |-> "10.1/g3"]>>],
     aw5 |-> [id |-> "aw5", number |-> "505", title |-> [en |-> "Grant five"],
              funder |-> [id |-> "ror2"]]]

\* Award ids whose record was deleted; every other id outside the vocabulary
\* does not exist.
DeletedAwards == {"aw4"}

\* The funders vocabulary: every vocabulary award's funder is in it.
FundersVocabulary ==
    [ror1 |-> [name |-> "EC", country |-> "BE",
               identifiers |-> <<[scheme |-> "ror", identifier |-> "ror1"],
                                 [scheme |-> "doi", identifier |-> "10.13039/501"]>>],
     ror2 |-> [name |-> "NSF", identifiers |-> <<>>]]

\* zenodo_rdm.legacy.deserializers.schemas.FUNDER_ROR_TO_DOI.
FUNDER_ROR_TO_DOI == [ror1 |-> "10.13039/501"]

\* The funding entries of a record: a funder, an award, or both; the award is a
\* vocabulary one (an id) or a custom one (a title and a number, no id).
FundingFunders == {EmptyDict} \cup { [funder |-> [id |-> f]] : f \in {"ror1", "ror2"} }
FundingAwards ==
    {EmptyDict, [award |-> [title |-> [en |-> "Custom"], number |-> "000"]]}
    \cup { [award |-> [id |-> a]] : a \in {"aw1", "aw2", "aw3", "aw4", "aw5", "aw9"} }
FundingItems == { Update(f, a) : f \in FundingFunders, a \in FundingAwards }

GrantsObjs ==
    {EmptyDict} \cup { [funding |-> l] : l \in Lists(FundingItems, MaxListLen) }

\* A lookup in one of the two vocabulary services.
Lookup(service, id) == [service |-> service, id |-> id]

\* a_service.read(system_identity, aid): the exception it raises, if any.
AwardReadError(aid) ==
    IF aid \in DOMAIN AwardsVocabulary THEN NoError
    ELSE IF aid \in DeletedAwards THEN "PIDDeletedError" ELSE "PIDDoesNotExistError"

\* MetadataSchema._funder.
RECURSIVE FunderIdentifiers(_, _, _)
FunderIdentifiers(legacy_funder, identifiers, i) ==
    IF i > Len(identifiers) THEN legacy_funder
    ELSE FunderIdentifiers(
           IF identifiers[i].scheme = "doi"
           THEN Update(legacy_funder, [doi |-> identifiers[i].identifier])
           ELSE legacy_funder,
           identifiers, i + 1)

_funder(funder) ==
    Update(FunderIdentifiers([name |-> funder.name], funder.identifiers, 1),
           IF "country" \in DOMAIN funder THEN [country |-> funder.country]
           ELSE EmptyDict)

\* MetadataSchema._award, lines 332-339: the identifiers loop; a "doi" identifier
\* is read through the key "doi", which an identifier does not have.
RECURSIVE AwardIdentifiers(_, _, _)
AwardIdentifiers(legacy_grant, identifiers, i) ==
    IF i > Len(identifiers) THEN [grant |-> legacy_grant, raised |-> NoError]
    ELSE IF identifiers[i].scheme = "doi" /\ "doi" \notin DOMAIN identifiers[i]
    THEN [grant |-> legacy_grant, raised |-> "KeyError"]
    ELSE AwardIdentifiers(
           Update(Update(legacy_grant,
                         IF identifiers[i].scheme = "url"
                         THEN [url |-> identifiers[i].identifier] ELSE EmptyDict),
                  IF identifiers[i].scheme = "doi"
                  THEN [doi |-> identifiers[i].doi] ELSE EmptyDict),
           identifiers, i + 1)

\* Lines 322-326: award["title"].get("en", next(iter(award["title"]))): the default
\* is the first key of the title dict; StopIteration (no key) leaves the title out.
AwardTitle(title) ==
    IF DOMAIN title = {} THEN EmptyDict
    ELSE IF "en" \in DOMAIN title THEN [title |-> title.en]
    ELSE [title |-> CHOOSE k \in DOMAIN title : TRUE]

\* MetadataSchema._award: the legacy grant, or the exception raised.
_award(award) ==
    LET funder_ror == award.funder.id
        funder_doi_or_ror == IF funder_ror \in DOMAIN FUNDER_ROR_TO_DOI
                             THEN FUNDER_ROR_TO_DOI[funder_ror] ELSE funder_ror
        legacy_grant ==
          Update(Update([code |-> award.number,
                         internal_id |-> funder_doi_or_ror \o "::" \o award.id],
                        AwardTitle(award.title)),
                 IF "acronym" \in DOMAIN award THEN [acronym |-> award.acronym]
                 ELSE EmptyDict) IN
      IF "identifiers" \notin DOMAIN award
      THEN [grant |-> legacy_grant, raised |-> "TypeError"]
      ELSE AwardIdentifiers(legacy_grant, award.identifiers, 1)

\* One pass of the loop body of dump_grants: what it returns or raises, the
\* lookups it made, and whether the loop goes on to the next entry.
GrantsStep(next, ret, exc, lookups) ==
    [next |-> next, ret |-> ret, raised |-> exc, lookups |-> lookups]

\* AfterAwardNotFound with a fault seeded: an award that does not resolve is skipped.
AfterAwardNotFoundContinue == "continue"

\* Line 362: `return missing` when the award read raises.
AfterAwardNotFound == "return"

\* Lines 365-376: the funder is read by the award's funder id and the grant built.
GrantsResolve(award, lookups) ==
    IF "funder" \notin DOMAIN award
    THEN GrantsStep("return", Nothing, "KeyError", lookups)
    ELSE LET fid == award.funder.id
             funder == FundersVocabulary[fid]
             made == Append(lookups, Lookup("funders", fid))
             built == _award(award) IN
           IF built.raised # NoError
           THEN GrantsStep("return", Nothing, built.raised, made)
           ELSE GrantsStep("return",
                           Returned(Update(built.grant, [funder |-> _funder(funder)])),
                           NoError, made)

\* Lines 350-376: the loop body for one funding entry.
GrantsBody(funding_item) ==
    IF "award" \notin DOMAIN funding_item
    THEN GrantsStep("return", Nothing, "AttributeError", <<>>)
    ELSE LET award == funding_item.award IN
           IF "id" \in DOMAIN award
           THEN IF AwardReadError(award.id) # NoError
                THEN GrantsStep(AfterAwardNotFound, Missing, NoError,
                                <<Lookup("awards", award.id)>>)
                ELSE GrantsResolve(AwardsVocabulary[award.id],
                                   <<Lookup("awards", award.id)>>)
           ELSE GrantsResolve(award, <<>>)

\* Line 349: `for funding_item in funding:`; a loop that runs out returns None.
RECURSIVE GrantsLoop(_, _, _)
GrantsLoop(funding, i, lookups) ==
    IF i > Len(funding)
    THEN GrantsStep("return", NoneReturned, NoError, lookups)
    ELSE LET step == GrantsBody(funding[i]) IN
           IF step.next = "return"
           THEN [step EXCEPT !.lookups = lookups \o step.lookups]
           ELSE GrantsLoop(funding, i + 1, lookups \o step.lookups)

\* MetadataSchema.dump_grants.
dump_grants(o) ==
    IF "funding" \notin DOMAIN o \/ o.funding = <<>>
    THEN GrantsStep("return", Missing, NoError, <<>>)
    ELSE GrantsLoop(o.funding, 1, <<>>)

DumpGrants ==
    /\ op = "dump_grants" /\ pc = "call"
    /\ LET out == dump_grants(obj) IN
         /\ result' = out.ret
         /\ raised' = out.raised
         /\ calls' = out.lookups
    /\ pc' = "done"
    /\ UNCHANGED <<op, obj, locals>>

InitGrants == Ready("dump_grants", GrantsObjs)

NextGrants == DumpGrants

(***************************************************************************)
(* LegacySchema.dump: the pre_dump hooks and the fields they feed          *)
(***************************************************************************)

\* How many times the same record object is dumped.
MaxDumps == 3

\* A value that is None (data.get("custom_fields") of a record without them).
NoneValue == [none |-> TRUE]

\* A string where a string or a dict may stand (thesis:university).
PyStr(s) == [str |-> s]

\* metadata.identifiers and metadata.related_identifiers of a record.
AlternateIdentifiers == { [identifier |-> x, scheme |-> "doi"] : x \in {"10.1/a", "10.1/b"} }
RelatedIdentifiers == { [identifier |-> "10.1/c", relation_type |-> [id |-> "cites"]] }

\* custom_fields of a record: thesis:university and imprint:imprint, each optional.
CustomFields ==
    { Update(t, i) :
        t \in {EmptyDict, [k \in {"thesis:university"} |-> PyStr("CERN U")]},
        i \in {EmptyDict,
               [k \in {"imprint:imprint"} |-> [title |-> "Book", place |-> "Geneva"]]} }

\* The records handed to LegacySchema().dump: metadata with optional identifiers,
\* related_identifiers and publisher; custom_fields, which a record may lack.
DumpMetadatas ==
    { Update(Update(i, r), q) :
        i \in {EmptyDict}
              \cup { [identifiers |-> l] : l \in Lists(AlternateIdentifiers, MaxListLen) },
        r \in {EmptyDict}
              \cup { [related_identifiers |-> l] : l \in Lists(RelatedIdentifiers, 1) },
        q \in {EmptyDict, [publisher |-> "Pub"]} }

DumpRecords ==
    { Update([metadata |-> m, access |-> [files |-> "public"]], c) :
        m \in DumpMetadatas,
        c \in {EmptyDict} \cup { [custom_fields |-> x] : x \in CustomFields } }

\* LegacySchema.hook_metadata: custom_fields and access are hooked into metadata;
\* metadata["custom_fields"] is the record's own custom_fields object.
hook_metadata(data) ==
    [data EXCEPT !.metadata =
       Update(data.metadata,
              [custom_fields |-> IF "custom_fields" \in DOMAIN data
                                 THEN data.custom_fields ELSE NoneValue,
               access |-> data.access])]

\* One related identifier made of an alternate identifier.
AlternateAsRelated(identifier) ==
    [relation_type |-> [id |-> "isAlternateIdentifier"],
     identifier |-> identifier.identifier]

\* MetadataSchema.hook_alternate_identifiers: the identifiers are appended to the
\* record's own related_identifiers list.
hook_alternate_identifiers(data) ==
    LET alternate_identifiers ==
          IF "identifiers" \in DOMAIN data THEN data.identifiers ELSE <<>>
        related_identifiers ==
          IF "related_identifiers" \in DOMAIN data
          THEN data.related_identifiers ELSE <<>> IN
      Update(data,
             [related_identifiers |->
                related_identifiers
                \o [i \in 1..Len(alternate_identifiers) |->
                      AlternateAsRelated(alternate_identifiers[i])]])

\* The exception hook_contributors_thesis raises, if any: custom_fields is None.
ThesisHookError(data) ==
    IF data.custom_fields = NoneValue THEN "AttributeError" ELSE NoError

\* MetadataSchema.hook_contributors_thesis: a university is wrapped in a dict.
hook_contributors_thesis(data) ==
    IF "thesis:university" \in DOMAIN data.custom_fields
    THEN [data EXCEPT !.custom_fields =
            Update(data.custom_fields,
                   [k \in {"thesis:university"} |->
                      [university |-> data.custom_fields["thesis:university"]]])]
    ELSE data

\* MetadataSchema.hook_imprint_partof.
hook_imprint_partof(data) ==
    IF "imprint:imprint" \in DOMAIN data.custom_fields
    THEN LET imprint == data.custom_fields["imprint:imprint"]
             data1 == Update(data, [part_of |-> imprint]) IN
           IF "publisher" \in DOMAIN data
           THEN [data1 EXCEPT !.custom_fields =
                   Update(data.custom_fields,
                          [k \in {"imprint:imprint"} |->
                             Update(imprint, [publisher |-> data.publisher])])]
           ELSE data1
    ELSE data

\* A nested schema dumps the fields it declares and no others.
DumpFields(value, declared) == [k \in (DOMAIN value) \cap declared |-> value[k]]

\* ThesisSchema: `university` is a SanitizedUnicode, which dumps a value that is
\* not a string as its str().
DumpThesis(value) ==
    [university |-> IF "str" \in DOMAIN value.university
                    THEN value.university
                    ELSE [repr |-> value.university]]

\* RelatedIdentifierSchema: identifier and relation (relation_type.id).
DumpRelatedIdentifier(r) ==
    [identifier |-> r.identifier, relation |-> r.relation_type.id]

\* The fields of MetadataSchema fed by the hooks, dumped from the hooked metadata.
DumpMetadataFields(data) ==
    Update(Update(Update(
      [related_identifiers |->
         [i \in 1..Len(data.related_identifiers) |->
            DumpRelatedIdentifier(data.related_identifiers[i])]],
      IF "thesis:university" \in DOMAIN data.custom_fields
      THEN [thesis |-> DumpThesis(data.custom_fields["thesis:university"])]
      ELSE EmptyDict),
      IF "imprint:imprint" \in DOMAIN data.custom_fields
      THEN [imprint |-> DumpFields(data.custom_fields["imprint:imprint"],
                                   {"publisher", "isbn", "place"})]
      ELSE EmptyDict),
      IF "part_of" \in DOMAIN data
      THEN [part_of |-> DumpFields(data.part_of, {"pages", "title"})]
      ELSE EmptyDict)

\* The record after the hooks of one dump, the exception raised if any, and the
\* hooked metadata.  The hooks of MetadataSchema run in name order; the ones
\* after a hook that raises do not run.  custom_fields is one object, reached
\* from the record and from its metadata.
RunHooks(record) ==
    LET hooked == hook_metadata(record)
        data1 == hook_alternate_identifiers(hooked.metadata)
        exc == ThesisHookError(data1)
        data3 == IF exc = NoError
                 THEN hook_imprint_partof(hook_contributors_thesis(data1))
                 ELSE data1 IN
      [record |-> IF exc = NoError
                  THEN [hooked EXCEPT !.metadata = data3,
                                      !.custom_fields = data3.custom_fields]
                  ELSE [hooked EXCEPT !.metadata = data3],
       raised |-> exc,
       data |-> data3]

\* What `locals` holds between dumps: how many were made, and the first one's
\* outcome.
DumpLocals(dumps, first, first_raised) ==
    [dumps |-> dumps, first |-> first, first_raised |-> first_raised]

InitDump ==
    /\ op = "dump"
    /\ obj \in DumpRecords
    /\ pc = "call"
    /\ locals = DumpLocals(0, Nothing, NoError)
    /\ calls = <<>>
    /\ result = Nothing
    /\ raised = NoError

\* LegacySchema().dump(record) on the same record object once more.
LegacyDump ==
    /\ op = "dump" /\ locals.dumps < MaxDumps
    /\ LET run == RunHooks(obj)
           out == IF run.raised = NoError
                  THEN [metadata |-> DumpMetadataFields(run.data)] ELSE Nothing IN
         /\ obj' = run.record
         /\ result' = out
         /\ raised' = run.raised
         /\ locals' = IF locals.dumps = 0 THEN DumpLocals(1, out, run.raised)
                      ELSE [locals EXCEPT !.dumps = @ + 1]
    /\ pc' = "done"
    /\ UNCHANGED <<op, calls>>

NextDump == LegacyDump

Init ==
    \/ InitRelease
    \/ InitLegacySchema
    \/ InitDateSchema
    \/ InitMetadataSchema
    \/ InitGrants
    \/ InitDump

Next ==
    \/ NextRelease
    \/ NextLegacySchema
    \/ NextDateSchema
    \/ NextMetadataSchema
    \/ NextGrants
    \/ NextDump

Spec == Init /\ [][Next]_vars

(***************************************************************************)
(* Claims                                                                  *)
(***************************************************************************)

\* The loaders called so far, by name.
Called(fn) == \E i \in 1..Len(calls) : calls[i].fn = fn

\* What the release's files convert to, read off the release itself.
ExtraOf(release) == LegacySchemaLoad(release.zenodo_json.doc)
CitationOf(release) == LegacySchemaLoad(CitationSchemaLoad(release.citation.cff))
HasExtra(release) ==
    /\ release.zenodo_json.exists /\ release.zenodo_json.bytes = "json"
    /\ LegacySchemaError(release.zenodo_json.doc) = NoError
    /\ ExtraOf(release) # EmptyDict
HasCitation(release) ==
    /\ ~CitationDataFalsy(release.citation)
    /\ CitationOf(release) # EmptyDict

\* C1: .zenodo.json has precedence over CITATION.cff.  When the extra metadata is
\* non-empty the citation metadata is never consulted and the value returned is
\* the default metadata updated with the extra metadata; when it is empty the
\* citation metadata is consulted and the value returned is the default metadata
\* updated with it if it is non-empty, and exactly the default metadata otherwise.
C1_ZenodoJsonPrecedence ==
    op = "metadata" =>
      /\ (pc # "call" /\ locals.extra_metadata # EmptyDict)
            => ~Called("load_citation_metadata")
      /\ (pc = "done" /\ raised = NoError) =>
            IF HasExtra(obj)
            THEN /\ result = Update(obj.default_metadata, ExtraOf(obj))
                 /\ ~Called("load_citation_metadata")
            ELSE /\ Called("load_citation_metadata")
                 /\ result = IF HasCitation(obj)
                             THEN Update(obj.default_metadata, CitationOf(obj))
                             ELSE obj.default_metadata

\* C1 witness: a release with both files usable has returned its metadata.
C1_Witness ==
    /\ op = "metadata" /\ pc = "done" /\ raised = NoError
    /\ HasExtra(obj) /\ HasCitation(obj)
    /\ CitationOf(obj) # ExtraOf(obj)
    /\ result # obj.default_metadata

\* The last loader call made, and whether it had anything to load.
LastCall == calls[Len(calls)]
NothingToLoad ==
    IF LastCall.fn = "load_extra_metadata"
    THEN LastCall.net = NoError /\ ~obj.zenodo_json.exists
    ELSE CitationDataFalsy(obj.citation)
Converted ==
    IF LastCall.fn = "load_extra_metadata" THEN ExtraOf(obj) ELSE CitationOf(obj)

\* C2: a loader call has exactly three outcomes: {} without invoking the
\* legacy-to-RDM schema when there is nothing to load, the converted metadata
\* on success, and CustomGitHubMetadataError on any failure; no other exception
\* escapes.
C2_LoaderOutcomes ==
    (op = "metadata" /\ pc # "call") =>
      LET out == locals.last IN
        /\ out.raised \in {NoError, "CustomGitHubMetadataError"}
        /\ raised \in {NoError, "CustomGitHubMetadataError"}
        /\ NothingToLoad =>
              (out.raised = NoError /\ out.ret = EmptyDict /\ ~out.schema)
        /\ (out.raised = NoError /\ ~NothingToLoad) =>
              (out.schema /\ out.ret = Converted)
        /\ (LastCall.net # NoError) => out.raised = "CustomGitHubMetadataError"

\* C2 witness: a loader call failed inside retrieval and raised the wrapped error.
C2_Witness ==
    /\ op = "metadata" /\ pc = "done"
    /\ LastCall.net = "ConnectionError"
    /\ raised = "CustomGitHubMetadataError"

\* An operation has returned (it did not raise).
Done(name) == op = name /\ pc = "done" /\ raised = NoError

\* C3 as stated: prereserve_doi is {doi, recid} with recid the record's id, and
\* doi is 10.5281/zenodo.<recid> exactly when the provider is external, the
\* record's own pids.doi.identifier for every other provider.
C3_AsStated ==
    Done("dump_prereserve_doi") =>
      LET pre == result.metadata.prereserve_doi
          doi == obj.pids.doi IN
        /\ pre.recid = obj.id
        /\ (pre.doi = ZenodoDoi(obj.id)) <=> (doi.provider = "external")
        /\ (doi.provider # "external") => pre.doi = doi.identifier

\* C3 amended: for every record dumped, prereserve_doi is {doi, recid} with recid
\* the record's id; doi is 10.5281/zenodo.<recid> whenever the provider is
\* external, and the record's own pids.doi.identifier for every other provider
\* (which may itself be 10.5281/zenodo.<recid>).
C3_PrereserveDoi ==
    Done("dump_prereserve_doi") =>
      LET pre == result.metadata.prereserve_doi
          doi == obj.pids.doi IN
        /\ DOMAIN pre = {"doi", "recid"}
        /\ pre.recid = obj.id
        /\ (doi.provider = "external") => pre.doi = ZenodoDoi(obj.id)
        /\ (doi.provider # "external") => pre.doi = doi.identifier

\* C3 witness: an external DOI that is not the Zenodo DOI has been replaced.
C3_Witness ==
    /\ Done("dump_prereserve_doi")
    /\ obj.pids.doi.provider = "external"
    /\ "identifier" \in DOMAIN obj.pids.doi
    /\ obj.pids.doi.identifier = "10.1234/foo.1"
    /\ result.metadata.prereserve_doi.doi = "10.5281/zenodo.22"

\* The number of occurrences of c in s.
RECURSIVE Count(_, _)
Count(s, c) ==
    IF s = <<>> THEN 0 ELSE (IF Head(s) = c THEN 1 ELSE 0) + Count(Tail(s), c)

\* C4: a date with exactly one "/" is dumped with start the part before it and
\* end the part after it; any other date (no "/", several, or no date at all)
\* gets neither start nor end, and nothing is raised.
C4_DateInterval ==
    (op = "dump_date" /\ pc = "done") =>
      /\ raised = NoError
      /\ IF "date" \in DOMAIN obj /\ Count(obj.date, "/") = 1
         THEN LET i == Find(obj.date, "/", 1) IN
                /\ result.start = SubSeq(obj.date, 1, i - 1)
                /\ result.end = SubSeq(obj.date, i + 1, Len(obj.date))
         ELSE DOMAIN result \cap {"start", "end"} = {}

\* C4 witness: an interval has been split.
C4_Witness ==
    /\ Done("dump_date")
    /\ obj = [date |-> <<"1", "/", "9">>]
    /\ result = [start |-> <<"1">>, end |-> <<"9">>]

\* C4, the other case: a date with two "/" has been dumped with neither key.
C4_WitnessOther ==
    /\ Done("dump_date")
    /\ obj = [date |-> <<"1", "/", "9", "/">>] /\ result = EmptyDict

\* C9: state is unsubmitted iff the record is not published, inprogress iff it
\* is published and a draft, done iff it is published and not a draft;
\* submitted equals is_published, so it is true exactly when state is not
\* unsubmitted.
C9_State ==
    Done("dump_state") =>
      /\ (result.state = "unsubmitted") <=> ~obj.is_published
      /\ (result.state = "inprogress") <=> (obj.is_published /\ obj.is_draft)
      /\ (result.state = "done") <=> (obj.is_published /\ ~obj.is_draft)
      /\ result.submitted = obj.is_published
      /\ result.submitted <=> (result.state # "unsubmitted")

\* C9 witness: an unpublished draft has been dumped as unsubmitted.
C9_Witness ==
    /\ Done("dump_state")
    /\ ~obj.is_published /\ obj.is_draft
    /\ result.state = "unsubmitted" /\ ~result.submitted

\* The resource type id of the input, <<>> when it has none.
ResourceTypeId ==
    IF "resource_type" \in DOMAIN obj /\ "id" \in DOMAIN obj.resource_type
    THEN obj.resource_type.id ELSE <<>>

\* C5: upload_type is the part of the id before the first "-" (the whole id when
\* it has none); when the id has a "-" the key <upload_type>_type holds the part
\* after the last "-"; without a "-" no *_type key is added; without a resource
\* type id neither key is added.
C5_ResourceType ==
    Done("dump_resource_type") =>
      LET id == ResourceTypeId
          first == Find(id, "-", 1)
          before == IF first = 0 THEN id ELSE SubSeq(id, 1, first - 1)
          last == CHOOSE i \in 0..Len(id) :
                    /\ i # 0 => id[i] = "-"
                    /\ \A j \in (i + 1)..Len(id) : id[j] # "-"
          after == SubSeq(id, last + 1, Len(id)) IN
        IF id = <<>> THEN result = EmptyDict
        ELSE /\ result[UploadTypeKey] = before
             /\ IF first # 0
                THEN /\ DOMAIN result = {UploadTypeKey, before \o TypeSuffix}
                     /\ result[before \o TypeSuffix] = after
                ELSE DOMAIN result = {UploadTypeKey}

\* C5 witness: an id with two "-" has been decomposed.
C5_Witness ==
    /\ Done("dump_resource_type")
    /\ ResourceTypeId = <<"a", "-", "b", "-">>
    /\ result[UploadTypeKey] = <<"a">>
    /\ result[<<"a">> \o TypeSuffix] = <<>>

\* C7: license is {id: rdm_to_legacy(id of rights[0])} and language the id of
\* languages[0], whatever follows the first element; each is left out when its
\* list is absent or empty.
C7_FirstElement ==
    /\ Done("dump_license") =>
         IF "rights" \in DOMAIN obj /\ Len(obj.rights) > 0
         THEN /\ "id" \in DOMAIN obj.rights[1]
              /\ result = Returned([id |-> rdm_to_legacy(obj.rights[1].id)])
         ELSE result = Missing
    /\ (op = "dump_license" /\ pc = "done" /\ raised # NoError) =>
         "id" \notin DOMAIN obj.rights[1]
    /\ (op = "dump_languages" /\ pc = "done") =>
         /\ raised = NoError
         /\ IF "languages" \in DOMAIN obj /\ Len(obj.languages) > 0
            THEN result = Returned(obj.languages[1].id)
            ELSE result = Missing

\* C7 witness: of two rights with different ids, the first has been dumped.
C7_Witness ==
    /\ Done("dump_license")
    /\ obj.rights = <<[id |-> "cc0-1.0"], [id |-> "mit"]>>
    /\ result = Returned([id |-> "cc-zero"])

\* C8: dump_access_right returns open, restricted, embargoed or None, never
\* closed: open iff files is public, restricted iff files is restricted and the
\* embargo is not active, embargoed iff files is not public and the embargo is
\* active, None otherwise.
C8_AccessRight ==
    (op = "dump_access_right" /\ pc = "done") =>
      LET files == obj.access.files
          active == IsEmbargoed(obj.access)
          right == result.ret IN
        /\ raised = NoError
        /\ right \in {"open", "restricted", "embargoed", PyNone}
        /\ (right = "open") <=> (files = "public")
        /\ (right = "restricted") <=> (files = "restricted" /\ ~active)
        /\ (right = "embargoed") <=> (files # "public" /\ active)
        /\ (right = PyNone) <=>
             ~(files = "public" \/ (files = "restricted" /\ ~active)
               \/ (files # "public" /\ active))

\* C8 witness: public files under an active embargo have been dumped as open.
C8_Witness ==
    /\ Done("dump_access_right")
    /\ obj.access.files = "public" /\ IsEmbargoed(obj.access)
    /\ result.ret = "open"

\* dump_grants has run on a record with at least one funding entry.
GrantsDone ==
    /\ op = "dump_grants" /\ pc = "done"
    /\ "funding" \in DOMAIN obj /\ Len(obj.funding) > 0

\* The first funding entry is one the legacy API does not support: funder-only,
\* or an award that has no vocabulary id or whose id does not resolve.
FunderOnly(item) == "award" \notin DOMAIN item
CustomAward(item) ==
    /\ "award" \in DOMAIN item
    /\ \/ "id" \notin DOMAIN item.award
       \/ AwardReadError(item.award.id) # NoError

\* C6: funding the legacy API does not support is left out, not failed: for a
\* funder-only entry or a custom award dump_grants returns `missing` and raises
\* nothing.
C6_UnsupportedFundingOmitted ==
    (GrantsDone /\ (FunderOnly(obj.funding[1]) \/ CustomAward(obj.funding[1]))) =>
      (raised = NoError /\ result = Missing)

C11_DumpRepeatable ==
    (op = "dump" /\ locals.dumps >= 1) =>
      (result = locals.first /\ raised = locals.first_raised)

\* C11, the alternate identifiers alone: the dumped related_identifiers hold one
\* isAlternateIdentifier entry for each of the record's identifiers.
C11_NoDuplicateAlternates ==
    (op = "dump" /\ locals.dumps >= 1 /\ raised = NoError) =>
      LET dumped == result.metadata.related_identifiers
          n == IF "identifiers" \in DOMAIN obj.metadata
               THEN Len(obj.metadata.identifiers) ELSE 0 IN
        Cardinality({ i \in 1..Len(dumped) :
                        dumped[i].relation = "isAlternateIdentifier" }) = n

\* C11, the thesis alone: the dumped university is the record's university.
C11_NoRepeatedWrapping ==
    (op = "dump" /\ locals.dumps >= 1 /\ raised = NoError
       /\ "thesis" \in DOMAIN result.metadata) =>
      result.metadata.thesis.university = PyStr("CERN U")

=============================================================================
